---------------------------- MODULE Spec2Model ----------------------------
(***************************************************************************)
(* A model of the SOLID examples of design-patterns-js:                    *)
(*   - aggregation(baseClass, ...mixins) and copyProps (mixin emulation),  *)
(*   - the abstract-type guards (this.constructor.name === '<Name>'),      *)
(*   - Relationships / RelationshipBrowser / Research,                     *)
(*   - Journal and its static counter.                                     *)
(* JavaScript values are records [t, c, k, n]; objects are maps from       *)
(* property keys to values; object-valued fields live on a heap so that    *)
(* aliasing is visible.                                                    *)
(***************************************************************************)
EXTENDS Integers, Sequences, FiniteSets, TLC

VARIABLES
  comp,      \* the class returned by aggregation(...), or status "none"
  insts,     \* the composite instances constructed so far
  heap,      \* the objects the constructors allocated ({} and [] literals)
  lastOp,    \* what the last operation was and how it ended
  writes,    \* how many writes to instance members were made
  defs,      \* classes declared by client code: <<[name, parent]>>
  glast,     \* outcome of the last `new` on the class hierarchy
  data,      \* Relationships.data
  calls,     \* history: the addParentAndChild(p, c) calls made
  found,     \* result of the last findAllChildrenOf
  research,  \* outcome of the last `new Research(browser)`
  count,     \* Journal.count
  entries,   \* entries of each Journal instance
  returned   \* history: the ids addEntry returned, in call order

vars == <<comp, insts, heap, lastOp, writes, defs, glast, data, calls, found,
          research, count, entries, returned>>

aggVars == <<comp, insts, heap, lastOp, writes>>
guardVars == <<defs, glast>>
dipVars == <<data, calls, found, research>>
journalVars == <<count, entries, returned>>

----------------------------------------------------------------------------
(* Bounds of the model.                                                    *)

MaxMixins == 2
MaxInst == 2
MaxWrites == 1
MaxDefs == 2
MaxCalls == 3
MaxCount == 4
MaxJournals == 2

----------------------------------------------------------------------------
(* JavaScript values.                                                      *)

Fn(c, k) == [t |-> "function", c |-> c, k |-> k, n |-> 0]
Str(s) == [t |-> "string", c |-> s, k |-> "", n |-> 0]
Num(n) == [t |-> "number", c |-> "", k |-> "", n |-> n]
Ref(a) == [t |-> "object", c |-> "", k |-> "", n |-> a]
Cls(c) == [t |-> "class", c |-> c, k |-> "", n |-> 0]
Undef == [t |-> "undefined", c |-> "", k |-> "", n |-> 0]

EmptyObj == [k \in {} |-> Undef]

Arg(args, i) == IF i <= Len(args) THEN args[i] ELSE Undef

----------------------------------------------------------------------------
(* The classes of the repository, and the provider shapes fed to           *)
(* aggregation.  fields: what the constructor assigns to `this`;           *)
(* super: the arguments it passes to super(); methods / statics: the own   *)
(* members of C.prototype and of C beyond constructor, name, length and    *)
(* prototype.                                                              *)

NoFields == [k \in {} |-> "none"]

ClassDef(name, parent, guard, arity, super, fields, methods, statics) ==
  [name |-> name, parent |-> parent, guard |-> guard, arity |-> arity,
   super |-> super, fields |-> fields, methods |-> methods,
   statics |-> statics, callable |-> TRUE]

Journal == ClassDef("Journal", "none", FALSE, 0, "none",
                    [k \in {"entries"} |-> "fresh"],
                    {"addEntry", "removeEntry", "toString"}, {"count"})

Document == ClassDef("Document", "none", FALSE, 0, "none", NoFields, {}, {})

Machine == ClassDef("Machine", "none", TRUE, 0, "none", NoFields,
                    {"print", "fax", "scan"}, {})

MultiFunctionPrinter == ClassDef("MultiFunctionPrinter", "Machine", FALSE, 0,
                                 "same", NoFields, {"print", "fax", "scan"}, {})

OldFashionedPrinter == ClassDef("OldFashionedPrinter", "Machine", FALSE, 0,
                                "same", NoFields, {"print", "scan"}, {})

Printer == ClassDef("Printer", "none", TRUE, 0, "none", NoFields, {"print"}, {})

Scanner == ClassDef("Scanner", "none", TRUE, 0, "none", NoFields, {"scan"}, {})

Photocopier == ClassDef("Photocopier", "base", FALSE, 0, "same", NoFields,
                        {"print", "scan"}, {})

Rectangle == ClassDef("Rectangle", "none", FALSE, 2, "none",
                      [k \in {"_width", "_height"} |->
                         IF k = "_width" THEN "arg1" ELSE "arg2"],
                      {"width", "height", "area", "toString"}, {})

Square == ClassDef("Square", "Rectangle", FALSE, 1, "dup", NoFields,
                   {"width", "height"}, {})

Person == ClassDef("Person", "none", FALSE, 1, "none",
                   [k \in {"name"} |-> "arg1"], {}, {})

RelationshipBrowser == ClassDef("RelationshipBrowser", "none", TRUE, 0, "none",
                                NoFields, {"findAllChildrenOf"}, {})

Relationships == ClassDef("Relationships", "RelationshipBrowser", FALSE, 0,
                          "none", [k \in {"data"} |-> "fresh"],
                          {"addParentAndChild", "findAllChildrenOf"}, {})

\* Relationship = Object.freeze({...}): an object, not a constructor.
Relationship == [ClassDef("", "none", FALSE, 0, "none", NoFields, {}, {})
                   EXCEPT !.callable = FALSE]

\* Provider shapes for the mixins parameter: two providers that collide on an
\* instance field, a prototype method and a static method, and a provider
\* with a symbol-keyed method.
ProviderA == ClassDef("ProviderA", "none", FALSE, 0, "none",
                      [k \in {"items", "level"} |->
                         IF k = "items" THEN "fresh" ELSE "one"],
                      {"report"}, {"create"})

ProviderB == ClassDef("ProviderB", "none", FALSE, 0, "none",
                      [k \in {"items", "level", "name"} |->
                         CASE k = "items" -> "fresh"
                           [] k = "level" -> "two"
                           [] OTHER -> "label"],
                      {"report", "toString"}, {"create"})

ProviderSym == ClassDef("ProviderSym", "none", FALSE, 0, "none", NoFields,
                        {"next", "@@iterator"}, {})

SourceClasses ==
  [c \in {"Journal", "Document", "Machine", "MultiFunctionPrinter",
          "OldFashionedPrinter", "Printer", "Scanner", "Photocopier",
          "Rectangle", "Square", "Person", "RelationshipBrowser",
          "Relationships", "Relationship", "ProviderA", "ProviderB",
          "ProviderSym"} |->
     CASE c = "Journal" -> Journal
       [] c = "Document" -> Document
       [] c = "Machine" -> Machine
       [] c = "MultiFunctionPrinter" -> MultiFunctionPrinter
       [] c = "OldFashionedPrinter" -> OldFashionedPrinter
       [] c = "Printer" -> Printer
       [] c = "Scanner" -> Scanner
       [] c = "Photocopier" -> Photocopier
       [] c = "Rectangle" -> Rectangle
       [] c = "Square" -> Square
       [] c = "Person" -> Person
       [] c = "RelationshipBrowser" -> RelationshipBrowser
       [] c = "Relationships" -> Relationships
       [] c = "Relationship" -> Relationship
       [] c = "ProviderA" -> ProviderA
       [] c = "ProviderB" -> ProviderB
       [] c = "ProviderSym" -> ProviderSym]

\* Property keys that are symbols rather than strings.
IsSymbol(k) == k \in {"@@iterator"}


Proto(c) == [t |-> "prototype", c |-> c, k |-> "", n |-> 0]

\* Ids of the classes client code declares (class <name> extends <parent> {}).
DefId(i) == <<"D1", "D2", "D3", "D4">>[i]
DefIds(dfs) == {DefId(i) : i \in 1..Len(dfs)}
DefIndex(c) == CHOOSE i \in 1..4 : DefId(i) = c

Class(c, dfs) ==
  IF c \in DOMAIN SourceClasses THEN SourceClasses[c]
  ELSE LET d == dfs[DefIndex(c)]
       IN  ClassDef(d.name, d.parent, FALSE, 0, "same", NoFields, {}, {})

\* The composite before aggregation has run.
NoComp == [status |-> "none", baseClass |-> "", mixins |-> <<>>,
           proto |-> EmptyObj, statics |-> EmptyObj]

\* Own properties of the class object C: every class has length, name and
\* prototype; Journal.count = 0 is assigned after the class body.
OwnStatics(c, cmp, dfs) ==
  IF c = "base" THEN cmp.statics
  ELSE LET cl == Class(c, dfs)
       IN  [k \in {"length", "name", "prototype"} \cup cl.statics |->
              CASE k = "length" -> Num(cl.arity)
                [] k = "name" -> Str(cl.name)
                [] k = "prototype" -> Proto(c)
                [] k = "count" -> Num(0)
                [] OTHER -> Fn(c, k)]

\* Own properties of C.prototype: constructor and the methods of the body.
OwnProto(c, cmp, dfs) ==
  IF c = "base" THEN cmp.proto
  ELSE LET cl == Class(c, dfs)
       IN  [k \in {"constructor"} \cup cl.methods |->
              IF k = "constructor" THEN Cls(c) ELSE Fn(c, k)]

ParentOf(c, cmp, dfs) == IF c = "base" THEN cmp.baseClass ELSE Class(c, dfs).parent

----------------------------------------------------------------------------
(* copyProps and aggregation.                                              *)

\* The names the regular expression of copyProps matches (anchored at both
\* ends, so a name matches only when it is one of the alternatives).
SpecialNames == {"constructor", "prototype", "arguments", "caller", "name",
                 "bind", "call", "apply", "toString", "length"}

\* A filter that forgets the identity members of a class.
IsSpecialNoIdentity(prop) ==
  prop \in SpecialNames \ {"constructor", "name", "length", "toString"}

IsSpecial(prop) == prop \in SpecialNames

\* A define that keeps a property the target already has.
definePropertyIfAbsent(obj, prop, desc) ==
  [x \in DOMAIN obj \cup {prop} |-> IF x \in DOMAIN obj THEN obj[x] ELSE desc]

\* Object.defineProperty(target, prop, descriptor): creates or replaces.
defineProperty(obj, prop, desc) ==
  [x \in DOMAIN obj \cup {prop} |-> IF x = prop THEN desc ELSE obj[x]]

RECURSIVE copyEach(_, _, _)
copyEach(target, source, props) ==
  IF props = {} THEN target
  ELSE LET prop == CHOOSE x \in props : TRUE
       IN  copyEach(IF ~IsSpecial(prop)
                      THEN defineProperty(target, prop, source[prop])
                      ELSE target,
                    source, props \ {prop})

\* copyProps(target, source): the own property names are visited first, then
\* the own symbols; prop.match is not a function when prop is a symbol, so
\* the first symbol visited throws a TypeError (ok = FALSE) after every name
\* has been handled.
copyProps(target, source) ==
  LET names == {k \in DOMAIN source : ~IsSymbol(k)}
      symbols == {k \in DOMAIN source : IsSymbol(k)}
  IN  [ok |-> symbols = {}, obj |-> copyEach(target, source, names)]

\* mixins.forEach(mixin => { copyProps(base.prototype, mixin.prototype);
\*                           copyProps(base, mixin); })
RECURSIVE copyMixins(_, _, _)
copyMixins(cmp, mixins, i) ==
  IF i > Len(mixins) \/ cmp.status # "ok" THEN cmp
  ELSE LET p == copyProps(cmp.proto, OwnProto(mixins[i], cmp, <<>>))
           s == copyProps(cmp.statics, OwnStatics(mixins[i], cmp, <<>>))
       IN  IF ~p.ok
             THEN [cmp EXCEPT !.status = "TypeError", !.proto = p.obj]
           ELSE IF ~s.ok
             THEN [cmp EXCEPT !.status = "TypeError", !.proto = p.obj,
                              !.statics = s.obj]
           ELSE copyMixins([cmp EXCEPT !.proto = p.obj, !.statics = s.obj],
                           mixins, i + 1)

\* class base extends baseClass { constructor(...args) {...} }: the class
\* as declared, before any copy. Extending a value that is not a constructor
\* throws a TypeError.
DeclareBase(baseClass, mixins) ==
  [status |-> IF SourceClasses[baseClass].callable THEN "ok" ELSE "TypeError",
   baseClass |-> baseClass, mixins |-> mixins,
   proto |-> [k \in {"constructor"} |-> Cls("base")],
   statics |-> [k \in {"length", "name", "prototype"} |->
                  CASE k = "length" -> Num(0)
                    [] k = "name" -> Str("base")
                    [] OTHER -> Proto("base")]]

aggregation(baseClass, mixins) ==
  copyMixins(DeclareBase(baseClass, mixins), mixins, 1)

----------------------------------------------------------------------------
(* Construction: `new target(...args)`.                                    *)

\* this.constructor.name for an object whose class is t: `constructor` is
\* found on t.prototype, `name` on the class it refers to.
CtorName(t, cmp, dfs) ==
  LET ctor == OwnProto(t, cmp, dfs)["constructor"]
  IN  IF ctor.t = "class" THEN OwnStatics(ctor.c, cmp, dfs)["name"] ELSE Undef

Returned(own, hp) ==
  [ok |-> TRUE, err |-> "", guard |-> "", target |-> "", own |-> own,
   placed |-> own, hp |-> hp]

Thrown(err, guard, target, hp) ==
  [ok |-> FALSE, err |-> err, guard |-> guard, target |-> target,
   own |-> EmptyObj, placed |-> EmptyObj, hp |-> hp]

SuperArgs(super, args) ==
  CASE super = "same" -> args
    [] super = "dup" -> <<Arg(args, 1), Arg(args, 1)>>
    [] OTHER -> <<>>

\* this.<k> = <initialiser> for each field of the constructor body; an
\* object or array literal allocates a new object.
RECURSIVE AssignFields(_, _, _, _, _)
AssignFields(c, fields, args, s, keys) ==
  IF keys = {} THEN s
  ELSE LET k == CHOOSE x \in keys : TRUE
           init == fields[k]
           v == CASE init = "arg1" -> Arg(args, 1)
                  [] init = "arg2" -> Arg(args, 2)
                  [] init = "one" -> Num(1)
                  [] init = "two" -> Num(2)
                  [] init = "label" -> Str("B")
                  [] OTHER -> Ref(Len(s.hp) + 1)
           hp2 == IF init = "fresh"
                    THEN Append(s.hp, [by |-> c, key |-> k, val |-> 0])
                    ELSE s.hp
       IN  AssignFields(c, fields, args,
                        [s EXCEPT !.own = defineProperty(s.own, k, v),
                                  !.hp = hp2],
                        keys \ {k})

RECURSIVE RunCtor(_, _, _, _, _, _, _)
RECURSIVE MixinCopy(_, _, _, _, _)

\* A mixin instance that is built once and handed to every composite
\* instance: its object members are the ones an earlier new mixin() made.
MixinInstanceShared(m, hp, cmp, dfs) ==
  LET r == RunCtor(m, m, <<>>, EmptyObj, hp, cmp, dfs)
      old(k) == {a \in 1..Len(hp) : hp[a].by = m /\ hp[a].key = k}
  IN  IF ~r.ok THEN r
      ELSE [r EXCEPT !.own =
              [k \in DOMAIN r.own |->
                 IF r.own[k].t = "object" /\ old(k) # {}
                   THEN Ref(CHOOSE a \in old(k) : \A b \in old(k) : a <= b)
                   ELSE r.own[k]]]

\* new mixin() as the composite's constructor evaluates it.
MixinInstance(m, hp, cmp, dfs) == RunCtor(m, m, <<>>, EmptyObj, hp, cmp, dfs)

\* The constructor of class c running on an object created by `new t`.
RunCtor(c, t, args, own, hp, cmp, dfs) ==
  IF c = "base"
    THEN LET s == RunCtor(cmp.baseClass, t, args, own, hp, cmp, dfs)
         IN  IF ~s.ok THEN s
             ELSE MixinCopy(cmp.mixins, 1, [s EXCEPT !.placed = s.own], cmp, dfs)
  ELSE LET cl == Class(c, dfs)
           s == IF cl.parent = "none" THEN Returned(own, hp)
                ELSE RunCtor(cl.parent, t, SuperArgs(cl.super, args), own, hp,
                             cmp, dfs)
       IN  IF ~s.ok THEN s
           ELSE IF cl.guard /\ CtorName(t, cmp, dfs) = Str(cl.name)
             THEN Thrown("abstract", c, t, hp)
           ELSE AssignFields(c, cl.fields, args, s, DOMAIN cl.fields)

\* mixins.forEach(mixin => copyProps(this, new mixin()))
MixinCopy(mixins, i, s, cmp, dfs) ==
  IF i > Len(mixins) THEN s
  ELSE LET m == MixinInstance(mixins[i], s.hp, cmp, dfs)
           cp == copyProps(s.own, m.own)
       IN  IF ~m.ok THEN m
           ELSE IF ~cp.ok THEN Thrown("TypeError", "", mixins[i], s.hp)
           ELSE MixinCopy(mixins, i + 1,
                          [s EXCEPT !.own = cp.obj, !.hp = m.hp], cmp, dfs)

Construct(t, args, hp, cmp, dfs) == RunCtor(t, t, args, EmptyObj, hp, cmp, dfs)

\* Property lookup along the prototype chain of class c.
RECURSIVE ProtoLookup(_, _, _, _)
ProtoLookup(c, k, cmp, dfs) ==
  IF c = "none"
    THEN IF k = "toString" THEN Fn("Object", "toString") ELSE Undef
  ELSE IF k \in DOMAIN OwnProto(c, cmp, dfs) THEN OwnProto(c, cmp, dfs)[k]
  ELSE ProtoLookup(ParentOf(c, cmp, dfs), k, cmp, dfs)

\* obj.k for an instance of class c with the given own properties.
Lookup(own, c, k, cmp, dfs) ==
  IF k \in DOMAIN own THEN own[k] ELSE ProtoLookup(c, k, cmp, dfs)

----------------------------------------------------------------------------
(* The aggregation state machine: compose once, construct instances of the *)
(* composite (or of a class extending it), write to their members.         *)

\* Values for the baseClass and mixins parameters, and for ...args.
Bases == {"Printer", "Rectangle", "Person", "Relationship"}
Mixins == {"Scanner", "Square", "ProviderA", "ProviderB", "ProviderSym"}
MixinLists == UNION {[1..n -> Mixins] : n \in 0..MaxMixins}
ArgLists == {<<>>, <<Num(2), Num(3)>>}
Targets == {"base", "Photocopier"}

NoOp == [op |-> "none", ok |-> TRUE, err |-> "", guard |-> "", target |-> "",
         cls |-> "", placed |-> EmptyObj]

InitAgg ==
  comp = NoComp /\ insts = <<>> /\ heap = <<>> /\ lastOp = NoOp /\ writes = 0

InitGuard == defs = <<>> /\ glast = NoOp

NoFind == [asked |-> FALSE, name |-> "", res |-> <<>>]

NoResearch == [asked |-> FALSE, browser |-> "", ok |-> TRUE, err |-> "",
               queries |-> 0, output |-> <<>>]

InitDip ==
  data = <<>> /\ calls = <<>> /\ found = NoFind /\ research = NoResearch

NoEntries == [c \in {} |-> <<>>]

\* Journal.count = 0; every journal starts with entries = {}.
InitJournal ==
  /\ count = 0
  /\ entries = [j \in 1..MaxJournals |-> NoEntries]
  /\ returned = <<>>

Init == InitAgg /\ InitGuard /\ InitDip /\ InitJournal

\* var base = aggregation(baseClass, ...mixins)
Compose(baseClass, mixins) ==
  /\ comp.status = "none"
  /\ comp' = aggregation(baseClass, mixins)
  /\ lastOp' = [NoOp EXCEPT !.op = "compose", !.ok = (comp'.status = "ok"),
                            !.err = IF comp'.status = "ok" THEN ""
                                    ELSE comp'.status]
  /\ UNCHANGED <<insts, heap, writes, guardVars, dipVars, journalVars>>

\* new base(...args), or new Photocopier(...args) where the composite is the
\* aggregation(Printer, Scanner) that Photocopier extends. A construction
\* that throws leaves nothing reachable behind, so the heap keeps only the
\* objects of constructions that returned.
New(t, args) ==
  /\ comp.status = "ok"
  /\ t = "Photocopier" => comp.baseClass = "Printer" /\ comp.mixins = <<"Scanner">>
  /\ Len(insts) < MaxInst
  /\ LET r == Construct(t, args, heap, comp, <<>>)
     IN  /\ lastOp' = [op |-> "new", ok |-> r.ok, err |-> r.err,
                       guard |-> r.guard, target |-> r.target, cls |-> t,
                       placed |-> r.placed]
         /\ IF r.ok
              THEN /\ insts' = Append(insts, [cls |-> t, own |-> r.own])
                   /\ heap' = r.hp
              ELSE UNCHANGED <<insts, heap>>
  /\ UNCHANGED <<comp, writes, guardVars, dipVars, journalVars>>

\* A write through instance i into the object its member k refers to
\* (for example instance.items.push(x)).
Mutate(i, k) ==
  /\ writes < MaxWrites
  /\ writes' = writes + 1
  /\ i \in 1..Len(insts)
  /\ k \in DOMAIN insts[i].own
  /\ insts[i].own[k].t = "object"
  /\ heap' = [heap EXCEPT ![insts[i].own[k].n].val = @ + 1]
  /\ lastOp' = [NoOp EXCEPT !.op = "write"]
  /\ UNCHANGED <<comp, insts, guardVars, dipVars, journalVars>>

\* instance.k = 9
Assign(i, k) ==
  /\ writes < MaxWrites
  /\ writes' = writes + 1
  /\ i \in 1..Len(insts)
  /\ k \in DOMAIN insts[i].own
  /\ insts[i].own[k] # Num(9)
  /\ insts' = [insts EXCEPT ![i].own[k] = Num(9)]
  /\ lastOp' = [NoOp EXCEPT !.op = "write"]
  /\ UNCHANGED <<comp, heap, guardVars, dipVars, journalVars>>

Keys == {"items", "level", "name", "_width", "_height"}

Next ==
  \/ \E b \in Bases, ms \in MixinLists : Compose(b, ms)
  \/ \E t \in Targets, args \in ArgLists : New(t, args)
  \/ \E i \in 1..Len(insts), k \in Keys : Mutate(i, k)
  \/ \E i \in 1..Len(insts), k \in Keys : Assign(i, k)

Spec == Init /\ [][Next]_vars

----------------------------------------------------------------------------
(* The abstract-type guards: client code declares descendants of the       *)
(* guarded hierarchies and constructs objects.                             *)

GuardedClasses == {"Machine", "MultiFunctionPrinter", "OldFashionedPrinter",
                   "Printer", "Scanner", "RelationshipBrowser", "Relationships"}
DeclNames == {"Machine", "RelationshipBrowser", "Copier"}
DeclParents == {"Machine", "MultiFunctionPrinter", "Printer",
                "RelationshipBrowser", "Relationships"}

\* class <name> extends <parent> {}
Declare(name, parent) ==
  /\ Len(defs) < MaxDefs
  /\ parent \in DeclParents \cup DefIds(defs)
  /\ defs' = Append(defs, [name |-> name, parent |-> parent])
  /\ UNCHANGED <<glast, aggVars, dipVars, journalVars>>

\* new t()
NewObject(t) ==
  /\ t \in GuardedClasses \cup DefIds(defs)
  /\ LET r == Construct(t, <<>>, <<>>, NoComp, defs)
     IN  glast' = [op |-> "new", ok |-> r.ok, err |-> r.err, guard |-> r.guard,
                   target |-> r.target, cls |-> t, placed |-> r.own]
  /\ UNCHANGED <<defs, aggVars, dipVars, journalVars>>

NextGuard ==
  \/ \E name \in DeclNames, parent \in DeclParents \cup {DefId(i) : i \in 1..MaxDefs} :
       Declare(name, parent)
  \/ \E t \in GuardedClasses \cup {DefId(i) : i \in 1..MaxDefs} : NewObject(t)

SpecGuard == Init /\ [][NextGuard]_vars

----------------------------------------------------------------------------
(* Dependency inversion: Relationships, RelationshipBrowser, Research.     *)

RelParent == 0
RelChild == 1
RelSibling == 2

\* new Person(name): id tells apart two persons of the same name.
People == {[id |-> "p1", name |-> "John"], [id |-> "p2", name |-> "Chris"],
           [id |-> "p3", name |-> "John"]}
QueryNames == {"John", "Chris", "Ann"}

\* A filter that forgets the relationship type.
MatchesIgnoringType(r, name) == r.from.name = name

\* r => r.from.name === name && r.type === Relationship.parent
MatchesParentOf(r, name) == r.from.name = name /\ r.type = RelParent

RECURSIVE FilterMap(_, _)
FilterMap(records, name) ==
  IF records = <<>> THEN <<>>
  ELSE LET rest == FilterMap(Tail(records), name)
       IN  IF MatchesParentOf(Head(records), name)
             THEN <<Head(records).to>> \o rest
             ELSE rest

\* Relationships.findAllChildrenOf(name), on the stored records.
findAllChildrenOf(records, name) == FilterMap(records, name)

\* Relationships.addParentAndChild(parent, child), on the stored records.
addParentAndChild(records, parent, child) ==
  Append(Append(records, [from |-> parent, type |-> RelParent, to |-> child]),
         [from |-> child, type |-> RelChild, to |-> parent])

AddParentAndChild(parent, child) ==
  /\ Len(calls) < MaxCalls
  /\ data' = addParentAndChild(data, parent, child)
  /\ calls' = Append(calls, <<parent, child>>)
  /\ UNCHANGED <<found, research, aggVars, guardVars, journalVars>>

FindAllChildrenOf(name) ==
  /\ found' = [asked |-> TRUE, name |-> name,
               res |-> findAllChildrenOf(data, name)]
  /\ UNCHANGED <<data, calls, research, aggVars, guardVars, journalVars>>

\* The objects handed to new Research(browser):
\*   "rels"     the Relationships instance,
\*   "abstract" an instance of a class that extends RelationshipBrowser and
\*              inherits its empty findAllChildrenOf (returns undefined),
\*   "person"   an object with no findAllChildrenOf property at all.
Browsers == {"rels", "abstract", "person"}

RECURSIVE NamesOf(_)
NamesOf(people) ==
  IF people = <<>> THEN <<>> ELSE <<Head(people).name>> \o NamesOf(Tail(people))

\* constructor(browser) { for (let p of browser.findAllChildrenOf('John'))
\*                          console.log(...p.name...) }
\* Calling a missing method and iterating undefined both throw a TypeError.
ResearchCtor(browser, records) ==
  CASE browser = "person" ->
         [asked |-> TRUE, browser |-> browser, ok |-> FALSE,
          err |-> "TypeError", queries |-> 0, output |-> <<>>]
    [] browser = "abstract" ->
         [asked |-> TRUE, browser |-> browser, ok |-> FALSE,
          err |-> "TypeError", queries |-> 1, output |-> <<>>]
    [] OTHER ->
         [asked |-> TRUE, browser |-> browser, ok |-> TRUE, err |-> "",
          queries |-> 1,
          output |-> NamesOf(findAllChildrenOf(records, "John"))]

NewResearch(browser) ==
  /\ research' = ResearchCtor(browser, data)
  /\ UNCHANGED <<data, calls, found, aggVars, guardVars, journalVars>>

NextDip ==
  \/ \E parent \in People, child \in People : AddParentAndChild(parent, child)
  \/ \E name \in QueryNames : FindAllChildrenOf(name)
  \/ \E browser \in Browsers : NewResearch(browser)

SpecDip == Init /\ [][NextDip]_vars

----------------------------------------------------------------------------
(* Journal: entries keyed by the ids the static counter hands out.         *)

Texts == {"I cried today.", "I ate a bug."}

\* An addEntry whose counter belongs to the journal instead of the class.
addEntryOwnCounter(jrnl, cnt, text) ==
  LET c == Cardinality(DOMAIN jrnl) + 1
  IN  [count |-> cnt + 1, ret |-> c,
       entries |-> [x \in DOMAIN jrnl \cup {c} |->
                      IF x = c THEN <<c, text>> ELSE jrnl[x]]]

\* addEntry(text): let c = ++Journal.count; this.entries[c] = `${c}: ${text}`
addEntry(jrnl, cnt, text) ==
  LET c == cnt + 1
  IN  [count |-> c, ret |-> c,
       entries |-> [x \in DOMAIN jrnl \cup {c} |->
                      IF x = c THEN <<c, text>> ELSE jrnl[x]]]

\* removeEntry(index): delete this.entries[index]
removeEntry(jrnl, index) == [x \in DOMAIN jrnl \ {index} |-> jrnl[x]]

AddEntry(j, text) ==
  /\ count < MaxCount
  /\ LET r == addEntry(entries[j], count, text)
     IN  /\ count' = r.count
         /\ entries' = [entries EXCEPT ![j] = r.entries]
         /\ returned' = Append(returned, r.ret)
  /\ UNCHANGED <<aggVars, guardVars, dipVars>>

RemoveEntry(j, index) ==
  /\ entries' = [entries EXCEPT ![j] = removeEntry(entries[j], index)]
  /\ UNCHANGED <<count, returned, aggVars, guardVars, dipVars>>

NextJournal ==
  \/ \E j \in 1..MaxJournals, text \in Texts : AddEntry(j, text)
  \/ \E j \in 1..MaxJournals, index \in 1..MaxCount : RemoveEntry(j, index)

SpecJournal == Init /\ [][NextJournal]_vars

----------------------------------------------------------------------------
(* Properties of aggregation.                                              *)

Max(S) == CHOOSE x \in S : \A y \in S : y <= x

Slot(obj, k) == IF k \in DOMAIN obj THEN obj[k] ELSE Undef

\* The instance the last successful `new` returned.
NewInst == insts[Len(insts)]

Constructed == lastOp.op = "new" /\ lastOp.ok

\* The class of c's chain whose constructor assigns this.k last.
RECURSIVE FieldOwner(_, _)
FieldOwner(c, k) ==
  IF c = "none" THEN "none"
  ELSE IF k \in DOMAIN SourceClasses[c].fields THEN c
  ELSE FieldOwner(SourceClasses[c].parent, k)

\* The own members of an instance of c: what the constructors of its chain
\* assign.
FieldKeys == UNION {DOMAIN SourceClasses[c].fields : c \in DOMAIN SourceClasses}
InstanceKeys ==
  [c \in DOMAIN SourceClasses |-> {k \in FieldKeys : FieldOwner(c, k) # "none"}]

\* Positions of the providers whose instances / prototypes / class objects
\* have an own member k.
OwnDefiners(k) ==
  {j \in 1..Len(comp.mixins) : k \in InstanceKeys[comp.mixins[j]]}
ProtoDefiners(k) ==
  {j \in 1..Len(comp.mixins) : k \in SourceClasses[comp.mixins[j]].methods}
StaticDefiners(k) ==
  {j \in 1..Len(comp.mixins) : k \in SourceClasses[comp.mixins[j]].statics}

\* v is the member k of an instance of provider m made with no arguments
\* during the last construction: the literal its constructor assigns, or
\* the most recent object a constructor of m's chain allocated for k.
IsOwnMemberOf(v, m, k) ==
  LET o == FieldOwner(m, k)
      init == SourceClasses[o].fields[k]
  IN  CASE init = "fresh" ->
             /\ v.t = "object"
             /\ v.n \in 1..Len(heap)
             /\ heap[v.n].by = o
             /\ heap[v.n].key = k
             /\ \A a \in (v.n + 1)..Len(heap) : heap[a].key # k
        [] init = "one" -> v = Num(1)
        [] init = "two" -> v = Num(2)
        [] init = "label" -> v = Str("B")
        [] OTHER -> v = Undef

AllKeys == UNION {DOMAIN SourceClasses[c].fields \cup SourceClasses[c].methods
                    \cup SourceClasses[c].statics : c \in DOMAIN SourceClasses}

\* The operations declared by the base (along its chain) and by each provider.
RECURSIVE ChainMethods(_)
ChainMethods(c) ==
  IF c = "none" THEN {}
  ELSE SourceClasses[c].methods \cup ChainMethods(SourceClasses[c].parent)

UnionKeys ==
  {k \in ChainMethods(comp.baseClass)
           \cup UNION {SourceClasses[comp.mixins[j]].methods :
                         j \in 1..Len(comp.mixins)} : ~IsSpecial(k)}

\* C1 (as claimed): every construction of a composite, or of a class
\* extending it, succeeds, and every non-excluded operation of the base and
\* of the providers is found on the instance; in particular new Photocopier()
\* succeeds and has print and scan.
C1_Union ==
  lastOp.op = "new" =>
    /\ lastOp.ok
    /\ \A k \in UnionKeys :
         Lookup(NewInst.own, NewInst.cls, k, comp, <<>>).t = "function"

\* C2: when providers i < j both define a non-excluded member m, the
\* composite carries the last one's m, on the prototype and on the class as
\* soon as it is composed, and on every instance it constructs.
C2_LastWins ==
  comp.status = "ok" =>
    \A k \in AllKeys \ SpecialNames :
      /\ ProtoDefiners(k) # {} =>
           Slot(comp.proto, k) = Fn(comp.mixins[Max(ProtoDefiners(k))], k)
      /\ StaticDefiners(k) # {} =>
           Slot(comp.statics, k) = Fn(comp.mixins[Max(StaticDefiners(k))], k)
      /\ (Constructed /\ OwnDefiners(k) # {}) =>
           IsOwnMemberOf(Slot(NewInst.own, k),
                         comp.mixins[Max(OwnDefiners(k))], k)

\* C2 witness: [ProviderA, ProviderB] composed and instantiated; both define
\* report, create, items and level.
C2_Witness ==
  /\ comp.status = "ok"
  /\ comp.mixins = <<"ProviderA", "ProviderB">>
  /\ Constructed
  /\ comp.proto["report"] = Fn("ProviderB", "report")
  /\ NewInst.own["level"] = Num(2)

\* C3 (as claimed): after construction every own member the base
\* constructor placed still has the value it placed.
C3_BasePrecedence ==
  Constructed =>
    \A k \in DOMAIN lastOp.placed : NewInst.own[k] = lastOp.placed[k]

\* C3 (amended): an own member the base constructor placed keeps its value
\* when its name is excluded or no provider instance has an own member of
\* that name; otherwise it is replaced by the member of the last provider
\* that has one.
C3_BaseOverwritten ==
  Constructed =>
    \A k \in DOMAIN lastOp.placed :
      IF IsSpecial(k) \/ OwnDefiners(k) = {}
        THEN NewInst.own[k] = lastOp.placed[k]
        ELSE IsOwnMemberOf(NewInst.own[k], comp.mixins[Max(OwnDefiners(k))], k)

\* C3 witness: new (aggregation(Rectangle, ..., Square, ...))(2, 3): the base
\* placed _width = 2 and the Square instance's undefined _width replaced it.
C3_Witness ==
  /\ Constructed
  /\ comp.baseClass = "Rectangle"
  /\ "_width" \in DOMAIN lastOp.placed
  /\ lastOp.placed["_width"] = Num(2)
  /\ OwnDefiners("_width") # {}
  /\ NewInst.own["_width"] = Undef

\* What instance i shows through the members copied from providers: the
\* member's value, and for an object member the object's content.
CopiedKeys ==
  UNION {InstanceKeys[comp.mixins[j]] : j \in 1..Len(comp.mixins)} \ SpecialNames
View(i) ==
  [k \in CopiedKeys \cap DOMAIN insts[i].own |->
     IF insts[i].own[k].t = "object"
       THEN <<"object", heap[insts[i].own[k].n].val>>
       ELSE <<"value", insts[i].own[k]>>]

C6_Exclusion ==
  /\ comp.status = "TypeError" =>
       \/ ~SourceClasses[comp.baseClass].callable
       \/ \E j \in 1..Len(comp.mixins) :
            \E k \in SourceClasses[comp.mixins[j]].methods : IsSymbol(k)
  /\ comp.status = "ok" =>
       LET bare == aggregation(comp.baseClass, <<>>)
       IN  \A k \in SpecialNames :
             /\ Slot(comp.statics, k) = Slot(bare.statics, k)
             /\ Slot(comp.proto, k) = Slot(bare.proto, k)
             /\ ProtoLookup("base", k, comp, <<>>)
                  = ProtoLookup("base", k, bare, <<>>)
             /\ Constructed =>
                  Slot(NewInst.own, k) = Slot(lastOp.placed, k)

\* C6 witness: Person base with ProviderB, whose instances have an own
\* `name` and whose prototype has toString; an instance was constructed with
\* a name argument.
C6_Witness ==
  /\ comp.status = "ok"
  /\ comp.baseClass = "Person"
  /\ \E j \in 1..Len(comp.mixins) : comp.mixins[j] = "ProviderB"
  /\ Constructed
  /\ NewInst.own["name"] = Num(2)
  /\ "level" \in DOMAIN NewInst.own

\* C7 (as claimed): composition fails only for a base that cannot be
\* extended, and a composition that succeeded copied every own name and
\* symbol of each provider's prototype except the filtered names.
C7_OnlyInvalidBase ==
  /\ comp.status = "TypeError" => ~SourceClasses[comp.baseClass].callable
  /\ comp.status = "ok" =>
       \A j \in 1..Len(comp.mixins) :
         \A k \in SourceClasses[comp.mixins[j]].methods :
           ~IsSpecial(k) => k \in DOMAIN comp.proto

----------------------------------------------------------------------------
(* Properties of the abstract-type guards.                                 *)

\* C4 (as claimed): `new t()` fails exactly when t is itself one of the
\* guarded abstract types; every strict descendant constructs, whatever its
\* name.
C4_AbstractGuard ==
  glast.op = "new" => (glast.ok <=> ~Class(glast.cls, defs).guard)

----------------------------------------------------------------------------
(* Properties of Relationships and Research.                               *)

\* C8 (as claimed): a browser without an implementation of findAllChildrenOf
\* makes new Research fail with MissingCapability before any query or
\* output; a browser with one makes it succeed.
C8_MissingCapability ==
  research.asked =>
    IF research.browser \in {"person", "abstract"}
      THEN /\ ~research.ok
           /\ research.err = "MissingCapability"
           /\ research.queries = 0
           /\ research.output = <<>>
      ELSE research.ok

\* The children of the calls whose parent is named n, in call order.
RECURSIVE ChildrenInCalls(_, _)
ChildrenInCalls(cs, n) ==
  IF cs = <<>> THEN <<>>
  ELSE IF Head(cs)[1].name = n
    THEN <<Head(cs)[2]>> \o ChildrenInCalls(Tail(cs), n)
  ELSE ChildrenInCalls(Tail(cs), n)

\* C9: findAllChildrenOf(n) returns the children of the addParentAndChild
\* calls whose parent is named n, in call order, one per call, and leaves
\* the records alone; addParentAndChild appends two records and changes none.
C9_FindAllChildren ==
  [][/\ found' # found =>
          /\ found'.res = ChildrenInCalls(calls, found'.name)
          /\ data' = data
     /\ data' # data =>
          /\ Len(data') = Len(data) + 2
          /\ SubSeq(data', 1, Len(data)) = data]_vars

\* C9 witness: a query returned the same child twice while a person of the
\* queried name was also recorded as a child.
C9_Witness ==
  /\ found.asked
  /\ Len(found.res) >= 2
  /\ found.res[1] = found.res[2]
  /\ \E i \in 1..Len(calls) : calls[i][2].name = found.name
  /\ found.res = findAllChildrenOf(data, found.name)

----------------------------------------------------------------------------
(* Properties of Journal.                                                  *)

\* C10: the ids addEntry returns increase strictly in call order over all
\* journals; Journal.count is the number of addEntry calls and never
\* decreases; a step that leaves the count alone (removeEntry) removes at
\* most one id from one journal and changes nothing else.
C10_JournalIds ==
  /\ [](/\ count = Len(returned)
        /\ \A a \in 1..Len(returned), b \in 1..Len(returned) :
             a < b => returned[a] < returned[b]
        /\ \A j \in 1..MaxJournals : \A c \in DOMAIN entries[j] :
             \E a \in 1..Len(returned) : returned[a] = c)
  /\ [][/\ count' >= count
        /\ (count' = count /\ entries' # entries) =>
             \E j \in 1..MaxJournals : \E c \in DOMAIN entries[j] :
               /\ entries'[j] = [x \in DOMAIN entries[j] \ {c} |-> entries[j][x]]
               /\ \A o \in 1..MaxJournals \ {j} : entries'[o] = entries[o]]_vars

\* C10 witness: an entry was removed and later ids were still handed out,
\* in both journals.
C10_Witness ==
  /\ count >= 3
  /\ \E c \in 1..count : \A j \in 1..MaxJournals : c \notin DOMAIN entries[j]
  /\ \A j \in {1, 2} : entries[j] # NoEntries
  /\ \E j \in 1..MaxJournals : count \in DOMAIN entries[j]

============================================================================
